---- MODULE Spec2Model ----
(***************************************************************************)
(* Model of the /concatenate pipeline of src/server.js (the file the       *)
(* Dockerfile copies and starts).  One job is followed from the request to *)
(* its response.  Every subprocess (ffmpeg/ffprobe through execAsync) and  *)
(* every network call (fetch) is an external collaborator: its outcome is  *)
(* chosen nondeterministically among the outcomes the code distinguishes.  *)
(* Filesystem calls on the job's own scratch directory (mkdir, writeFile,  *)
(* unlink, rename, rm with force) are taken to succeed; fs.stat of the     *)
(* output of a subprocess that exited with zero returns the size the       *)
(* subprocess left.  Sizes are in bytes.                                   *)
(***************************************************************************)
EXTENDS Integers, Sequences, FiniteSets, TLC

\* ------------------------------------------------------------------ bounds
MaxVideos == 2

\* --------------------------------------------------------------- constants
MB == 1048576
MIN_OUTPUT_BYTES == 1000
MAX_SIZE_MB == 49
MAX_CRF == 35
MAX_ATTEMPTS == 4
INITIAL_CRF == 23
CRF_STEP == 3

NoValue == "undefined"

\* ------------------------------------------------------- request parameters
formatDimensions ==
  [f \in {"9:16", "1:1", "16:9"} |->
     CASE f = "9:16" -> [width |-> 1080, height |-> 1920]
       [] f = "1:1"  -> [width |-> 1080, height |-> 1080]
       [] f = "16:9" -> [width |-> 1920, height |-> 1080]]

\* formatDimensions is an object literal: a lookup by a name it does not
\* define itself goes on to Object.prototype, whose members ("constructor"
\* stands for them) are truthy and have neither width nor height (0)
InheritedKeys == {"constructor"}

InheritedMember == [width |-> 0, height |-> 0]

\* the format values a request can carry ("4:3" stands for any value that
\* names nothing, NoValue for a request without the field)
Formats == {"9:16", "1:1", "16:9", "4:3", NoValue} \cup InheritedKeys

\* formatDimensions[format] || formatDimensions['9:16']
SelectTarget(format) ==
  IF format \in DOMAIN formatDimensions
    THEN formatDimensions[format]
  ELSE IF format \in InheritedKeys
    THEN InheritedMember
    ELSE formatDimensions["9:16"]

\* ---------------------------------------------------- downloaded file kinds
\* What a downloaded file is, as far as fs.stat and ffprobe can tell:
\* size in bytes, the probe's fate ("ok", "error" = non-zero exit, timeout
\* or unparsable output, "nostreams" = empty streams array) and the fields of
\* streams[0].  width/height 0 stand for 0 or absent.
MkFile(size, probe, codec, w, h, fps, pk) ==
  [size |-> size, probe |-> probe, codec_name |-> codec, width |-> w,
   height |-> h, r_frame_rate |-> fps, nb_read_packets |-> pk]

ValidFiles ==
  { MkFile(5 * MB, "ok", "h264", 1080, 1920, "30/1", "300"),
    MkFile(5 * MB, "ok", "h264", 1920, 1080, "60/1", "300"),
    MkFile(5 * MB, "ok", "hevc", 1920, 1080, "25/1", "300") }

\* size of a path fs.stat rejects (no such file)
NoFile == -1

InvalidFiles ==
  { MkFile(500, "ok", "h264", 1080, 1920, "30/1", "300"),
    MkFile(5 * MB, "ok", "h264", 1080, 1920, "30/1", "0"),
    MkFile(5 * MB, "error", NoValue, 0, 0, NoValue, NoValue),
    MkFile(NoFile, "error", NoValue, 0, 0, NoValue, NoValue) }

Files == ValidFiles \cup InvalidFiles

\* ---------------------------------------------------------- validateVideoFile
InvalidResult(reason) ==
  [isValid |-> FALSE, codec |-> NoValue, width |-> 0, height |-> 0,
   fps |-> NoValue, error |-> reason]

\* the try block spans the whole body: whatever is thrown inside (by
\* fs.stat, by execAsync, by JSON.parse or by one of the checks) reaches the
\* catch, which returns { isValid: false, error: error.message }
validateVideoFile_NoReason(file) ==
  IF file.size = NoFile THEN InvalidResult(NoValue)
  ELSE IF file.size < MIN_OUTPUT_BYTES THEN InvalidResult("Arquivo muito pequeno")
  ELSE IF file.probe = "error" THEN InvalidResult(NoValue)
  ELSE IF file.probe = "nostreams"
    THEN InvalidResult("Nenhum stream de video encontrado")
  ELSE IF file.codec_name = NoValue THEN InvalidResult("Codec nao identificado")
  ELSE IF file.width = 0 \/ file.height = 0 THEN InvalidResult("Dimensoes invalidas")
  ELSE IF file.nb_read_packets = "0" THEN InvalidResult("Sem pacotes validos")
  ELSE [isValid |-> TRUE, codec |-> file.codec_name, width |-> file.width,
        height |-> file.height, fps |-> file.r_frame_rate, error |-> NoValue]

validateVideoFile(file) ==
  IF file.size = NoFile THEN InvalidResult("ENOENT: no such file or directory")
  ELSE IF file.size < MIN_OUTPUT_BYTES THEN InvalidResult("Arquivo muito pequeno")
  ELSE IF file.probe = "error" THEN InvalidResult("ffprobe failed")
  ELSE IF file.probe = "nostreams"
    THEN InvalidResult("Nenhum stream de video encontrado")
  ELSE IF file.codec_name = NoValue THEN InvalidResult("Codec nao identificado")
  ELSE IF file.width = 0 \/ file.height = 0 THEN InvalidResult("Dimensoes invalidas")
  ELSE IF file.nb_read_packets = "0" THEN InvalidResult("Sem pacotes validos")
  ELSE [isValid |-> TRUE, codec |-> file.codec_name, width |-> file.width,
        height |-> file.height, fps |-> file.r_frame_rate, error |-> NoValue]

\* the validation stage throws on the first result that is not valid
ValidationGate_NoThrow(validation) == FALSE

ValidationGate(validation) == ~validation.isValid

\* ------------------------------------------------------- shouldNormalizeVideo
shouldNormalizeVideo_NoCodec(validationData, targetDimensions) ==
  LET isCorrectWidth  == validationData.width = targetDimensions.width
      isCorrectHeight == validationData.height = targetDimensions.height
      isCorrectFps    == /\ validationData.fps # NoValue
                         /\ validationData.fps \in {"30/1", "30", "60/1"}
      canSkipNormalization ==
        isCorrectWidth /\ isCorrectHeight /\ isCorrectFps
  IN ~canSkipNormalization

shouldNormalizeVideo_AnyFps(validationData, targetDimensions) ==
  LET isCorrectCodec  == validationData.codec = "h264"
      isCorrectWidth  == validationData.width = targetDimensions.width
      isCorrectHeight == validationData.height = targetDimensions.height
      isCorrectFps    == validationData.fps # NoValue
      canSkipNormalization ==
        isCorrectCodec /\ isCorrectWidth /\ isCorrectHeight /\ isCorrectFps
  IN ~canSkipNormalization

shouldNormalizeVideo_NoHeight(validationData, targetDimensions) ==
  LET isCorrectCodec  == validationData.codec = "h264"
      isCorrectWidth  == validationData.width = targetDimensions.width
      isCorrectFps    == /\ validationData.fps # NoValue
                         /\ validationData.fps \in {"30/1", "30", "60/1"}
      canSkipNormalization ==
        isCorrectCodec /\ isCorrectWidth /\ isCorrectFps
  IN ~canSkipNormalization

shouldNormalizeVideo(validationData, targetDimensions) ==
  LET isCorrectCodec  == validationData.codec = "h264"
      isCorrectWidth  == validationData.width = targetDimensions.width
      isCorrectHeight == validationData.height = targetDimensions.height
      isCorrectFps    == /\ validationData.fps # NoValue
                         /\ validationData.fps \in {"30/1", "30", "60/1"}
      canSkipNormalization ==
        isCorrectCodec /\ isCorrectWidth /\ isCorrectHeight /\ isCorrectFps
  IN ~canSkipNormalization


\* ------------------------------------------------------ subprocess outcomes
\* What one execAsync of ffmpeg can leave behind: "ok" = exit code zero and
\* an output of at least 1000 bytes, "small" = exit code zero and an output
\* under 1000 bytes, "fail" = non-zero exit or timeout (execAsync rejects).
ExecOutcomes == {"ok", "small", "fail"}

\* fastCopyVideo: resolves only on exit zero and an output of 1000+ bytes
fastCopyVideo(outcome) == IF outcome = "ok" THEN "success" ELSE "throw"

\* one tier of normalizeVideoWithRetries: same acceptance test
attempts ==
  << [name |-> "Normalizacao Rapida", preset |-> "fast", crf |-> 23],
     [name |-> "Normalizacao Robusta", preset |-> "medium", crf |-> 25],
     [name |-> "Re-encode Total Forcado", preset |-> "slow", crf |-> 28] >>

TierSucceeds(outcome) == outcome = "ok"

\* the filter is scale=${targetDimensions.width}:${targetDimensions.height}:
\* with a target that has no width it reads scale=undefined:undefined, which
\* ffmpeg refuses
TierOutcomes(target) ==
  IF target.width = 0 THEN {"fail"} ELSE ExecOutcomes

\* the canonical output normalized-<idx>.mp4: a stream copy keeps the
\* source's dimensions, a normalization scales and pads to the target's
CopiedOutput(idx, validation) ==
  [src |-> idx, width |-> validation.width, height |-> validation.height,
   via |-> "fast"]

NormalizedOutput(idx, target, isFallback) ==
  [src |-> idx, width |-> target.width, height |-> target.height,
   via |-> IF isFallback THEN "fallback" ELSE "normalized"]

\* normalizedFiles.push(normalizedFile) after a cascade that succeeded
PushNormalized_SkipFallback(list, entry, isFallback) ==
  IF isFallback THEN list ELSE Append(list, entry)

PushNormalized(list, entry, isFallback) == Append(list, entry)

\* sizes (bytes) an ffmpeg output can have: under the 1000-byte threshold,
\* exactly at the 49 MB ceiling, one byte over it, and in the higher buckets
OutputSizes == {500, 49 * MB, 49 * MB + 1, 110 * MB, 160 * MB}

MAX_SIZE_BYTES == MAX_SIZE_MB * MB

\* while (currentSizeMB > MAX_SIZE_MB && compressionAttempt < MAX_ATTEMPTS
\*        && currentCrf <= MAX_CRF)
LoopGuard_OffByOne(size, attempt, crf) ==
  size > MAX_SIZE_BYTES /\ attempt <= MAX_ATTEMPTS /\ crf <= MAX_CRF

LoopGuard_TwoAttempts(size, attempt, crf) ==
  size > MAX_SIZE_BYTES /\ attempt < 2 /\ crf <= MAX_CRF

LoopGuard(size, attempt, crf) ==
  size > MAX_SIZE_BYTES /\ attempt < MAX_ATTEMPTS /\ crf <= MAX_CRF

Min(a, b) == IF a < b THEN a ELSE b

\* CRF of attempt number `attempt` (already incremented), from the tracked
\* size and the previous CRF; compressionRatio = size / (49 MB), compared
\* without rounding: ratio > 1.5 iff 2 * size > 3 * 49 MB
ChooseCrf_SwappedBuckets(attempt, size, crf) ==
  IF attempt = 1
    THEN IF size > 3 * MAX_SIZE_BYTES THEN 30
         ELSE IF size > 2 * MAX_SIZE_BYTES THEN 32
         ELSE IF 2 * size > 3 * MAX_SIZE_BYTES THEN 28
         ELSE 25
    ELSE Min(crf + CRF_STEP, MAX_CRF)

ChooseCrf_NoStep(attempt, size, crf) ==
  IF attempt = 1
    THEN IF size > 3 * MAX_SIZE_BYTES THEN 32
         ELSE IF size > 2 * MAX_SIZE_BYTES THEN 30
         ELSE IF 2 * size > 3 * MAX_SIZE_BYTES THEN 28
         ELSE 25
    ELSE Min(crf, MAX_CRF)

ChooseCrf_NoClamp(attempt, size, crf) ==
  IF attempt = 1
    THEN IF size > 3 * MAX_SIZE_BYTES THEN 32
         ELSE IF size > 2 * MAX_SIZE_BYTES THEN 30
         ELSE IF 2 * size > 3 * MAX_SIZE_BYTES THEN 28
         ELSE 25
    ELSE crf + CRF_STEP

ChooseCrf(attempt, size, crf) ==
  IF attempt = 1
    THEN IF size > 3 * MAX_SIZE_BYTES THEN 32
         ELSE IF size > 2 * MAX_SIZE_BYTES THEN 30
         ELSE IF 2 * size > 3 * MAX_SIZE_BYTES THEN 28
         ELSE 25
    ELSE Min(crf + CRF_STEP, MAX_CRF)

\* the size tracked after a successful attempt: currentSizeMB = newSizeMB
AdoptedSize(oldSize, newSize) == newSize

\* name of the video-only file (0) and of compressed_<k>_<name> (k)
videoOnlyPath == 0


\* --------------------------------------------------------------------- state
VARIABLES
  pc,                \* position of the handler
  nUrls,             \* videoUrls.length of the request
  format,            \* req.body.format
  targetDimensions,  \* the selected profile
  tempDirExists,     \* the scratch directory exists on disk
  i,                 \* index of the running for-loop (0-based, as in the code)
  downloadedFiles,   \* files written by the download loop, in order
  validationResults, \* results pushed by the validation loop
  extractedAudios,   \* input index of each extracted audio track, in order
  finalAudio,        \* final-audio.aac was produced
  normalizedFiles,   \* per-video canonical outputs pushed by stage 2
  concatList,        \* entries of concat.txt, the concatenator's input
  fallback,          \* inside the catch of a failed fast copy
  attemptIndex,      \* tier of normalizeVideoWithRetries being tried
  started,           \* kinds of transcoding steps started so far
  files,             \* size of the video-only file and of the compressed candidates on disk
  currentSize,       \* currentSizeMB, in bytes
  currentCrf,
  compressionAttempt,
  workingPath,
  content,           \* per file on disk, the attempt whose encode wrote its content (0: the concatenation)
  encodeInput,       \* content read by the encode of the latest attempt
  lastOk,            \* number of the latest attempt whose encode succeeded, 0 if none
  attemptCrfs,       \* CRF of every encode the compression loop started, in order
  warned,            \* the still-over-the-ceiling warning was logged
  outputSize,        \* size of the muxed artifact, 0 while it does not exist
  deleteStatus,      \* outcome of the delete of the destination key
  uploaded,          \* sizes of the artifacts the object store accepted from this job
  error,             \* message of the error caught by the outer catch
  killed,            \* pkill of the transcoding processes was attempted
  response,          \* HTTP status answered, 0 while unanswered
  uploadStatus,      \* outcome of the upload request
  body,              \* error and details fields of the JSON body answered
  \* the host: every request in flight, /tmp, the clock, the process table
  jobs,              \* per request: endpoint, projectId, tempDir, awaited call
  tmp,               \* scratch directories in /tmp with their mtimeMs
  now,               \* Date.now()
  orphans,           \* ffmpeg processes of /concatenate whose exec has ended
  objects,           \* per storage path, the request whose upload the bucket holds
  \* the pure functions applied to one drawn input each
  probed,            \* what fs.stat and ffprobe report for a file
  validationData,    \* result of validateVideoFile(probed)
  target,            \* targetDimensions given to shouldNormalizeVideo
  needsNormalization,\* decision of shouldNormalizeVideo
  videoOnlyBytes,    \* size of the concatenated video-only file
  firstCrf,          \* CRF chosen for the first compression attempt
  FFMPEG_API_KEY,    \* process.env.FFMPEG_API_KEY, NoValue when not set
  route,             \* the route a request is for
  apiKey,            \* its x-api-key header, NoValue when it has none
  authResult,        \* what the route's middleware did with it
  handled            \* the route's handler was called

handlerVars == << pc, nUrls, format, targetDimensions, tempDirExists, i,
           downloadedFiles, validationResults, extractedAudios,
           finalAudio, normalizedFiles, concatList, fallback, attemptIndex, started, files, currentSize, currentCrf,
           compressionAttempt, workingPath, content, encodeInput, lastOk,
           attemptCrfs, warned, outputSize,
           deleteStatus, uploaded, error, killed, response, uploadStatus,
           body >>

hostVars == << jobs, tmp, now, orphans, objects >>

authVars == << FFMPEG_API_KEY, route, apiKey, authResult, handled >>

fnVars == << probed, validationData, target, needsNormalization,
            videoOnlyBytes, firstCrf, authVars >>

vars == << handlerVars, hostVars, fnVars >>

\* the variables of the stages after stage 2
compressVars == << files, currentSize, currentCrf, compressionAttempt,
                   workingPath, content, encodeInput, lastOk, attemptCrfs,
                   warned >>
uploadVars == << outputSize, deleteStatus, uploaded >>

\* the two requests the host model follows
JobIds == {"A", "B"}

\* a request that has not arrived yet
NoDir == [prefix |-> NoValue, id |-> NoValue, stamp |-> 0]

NoJob ==
  [endpoint |-> NoValue, projectId |-> NoValue, tempDir |-> NoDir,
   phase |-> "idle", killedBy |-> "none"]

\* the storage paths of the bucket: `${projectId}/${outputFilename}` of a
\* /concatenate request, one per project, and the outputPath of /compress
StoragePaths == {"p1", "p2", "outputPath"}

\* the server after app.listen: no request, no scratch directory, no ffmpeg,
\* nothing uploaded
HostInit ==
  /\ jobs = [j \in JobIds |-> NoJob]
  /\ tmp = {}
  /\ now = 0
  /\ orphans = 0
  /\ objects = [k \in StoragePaths |-> NoValue]

\* no function applied yet: no result, no decision, no CRF
NoValidation == InvalidResult(NoValue)

FnIdle ==
  /\ probed = MkFile(0, "error", NoValue, 0, 0, NoValue, NoValue)
  /\ validationData = NoValidation
  /\ target = formatDimensions["9:16"]
  /\ needsNormalization = NoValue
  /\ videoOnlyBytes = 0
  /\ firstCrf = INITIAL_CRF
  /\ FFMPEG_API_KEY = NoValue
  /\ route = "concatenate"
  /\ apiKey = NoValue
  /\ authResult = NoValue
  /\ handled = FALSE

\* a JSON body without error and details fields
NoBody == [error |-> NoValue, details |-> NoValue]

HandlerInit ==
  /\ pc = "pending"
  /\ nUrls = 0
  /\ format = NoValue
  /\ targetDimensions = formatDimensions["9:16"]
  /\ tempDirExists = FALSE
  /\ i = 0
  /\ downloadedFiles = << >>
  /\ validationResults = << >>
  /\ extractedAudios = << >>
  /\ finalAudio = FALSE
  /\ normalizedFiles = << >>
  /\ concatList = << >>
  /\ fallback = FALSE
  /\ attemptIndex = 0
  /\ started = {}
  /\ files = << >>
  /\ currentSize = 0
  /\ currentCrf = INITIAL_CRF
  /\ compressionAttempt = 0
  /\ workingPath = videoOnlyPath
  /\ content = << >>
  /\ encodeInput = NoFile
  /\ lastOk = 0
  /\ attemptCrfs = << >>
  /\ warned = FALSE
  /\ outputSize = 0
  /\ deleteStatus = NoValue
  /\ uploaded = << >>
  /\ error = NoValue
  /\ killed = FALSE
  /\ response = 0
  /\ uploadStatus = NoValue
  /\ body = NoBody

Init == HandlerInit /\ HostInit /\ FnIdle

\* a throw inside the outer try block: control moves to the catch block
Throw_Continue(msg) ==
  /\ pc' = pc
  /\ error' = msg

Throw(msg) ==
  /\ pc' = "catch"
  /\ error' = msg

\* ------------------------------------------------------------------- actions
\* videoUrls of a request: absent (MissingUrls) or an array of that length
MissingUrls == -1

RequestUrls == {MissingUrls} \cup (0..MaxVideos)

\* !videoUrls || videoUrls.length < 2
RequestRejected_OnlyMissing(n) == n = MissingUrls

RequestRejected(n) == n = MissingUrls \/ n < 2

\* request check, profile selection
Receive ==
  /\ pc = "pending"
  /\ \E n \in RequestUrls, f \in Formats :
       /\ nUrls' = n
       /\ format' = f
       /\ IF RequestRejected(n)
            THEN /\ response' = 400
                 /\ body' = [error |-> "Needs at least 2 video URLs",
                              details |-> NoValue]
                 /\ pc' = "rejected"
                 /\ UNCHANGED targetDimensions
            ELSE /\ targetDimensions' = SelectTarget(f)
                 /\ pc' = "mkdir"
                 /\ UNCHANGED << response, body >>
  /\ UNCHANGED uploadStatus
  /\ UNCHANGED << tempDirExists, i, downloadedFiles, validationResults,
                  extractedAudios, finalAudio, normalizedFiles, concatList, fallback, attemptIndex,
                  started, error, compressVars, uploadVars, killed >>
  /\ UNCHANGED << hostVars, fnVars >>

Mkdir ==
  /\ pc = "mkdir"
  /\ tempDirExists' = TRUE
  /\ pc' = "download"
  /\ i' = 0
  /\ UNCHANGED << nUrls, format, targetDimensions, downloadedFiles,
                  validationResults, extractedAudios, finalAudio, normalizedFiles, concatList,
                  fallback, attemptIndex, started, error, compressVars, uploadVars, killed, response >>
  /\ UNCHANGED << uploadStatus, body >>
  /\ UNCHANGED << hostVars, fnVars >>

\* one iteration of the download loop
Download ==
  /\ pc = "download"
  /\ \/ \E file \in Files :
          /\ downloadedFiles' = Append(downloadedFiles, file)
          /\ IF i + 1 < nUrls
               THEN pc' = "download" /\ i' = i + 1
               ELSE pc' = "validate" /\ i' = 0
          /\ UNCHANGED error
     \/ /\ Throw("Failed to download video")
        /\ UNCHANGED << downloadedFiles, i >>
     \/ /\ Throw("Google Drive returned HTML instead of video")
        /\ UNCHANGED << downloadedFiles, i >>
  /\ UNCHANGED << nUrls, format, targetDimensions, tempDirExists,
                  validationResults, extractedAudios, finalAudio, normalizedFiles, concatList,
                  fallback, attemptIndex, started, compressVars, uploadVars, killed, response >>
  /\ UNCHANGED << uploadStatus, body >>
  /\ UNCHANGED << hostVars, fnVars >>

\* one iteration of the validation loop
Validate ==
  /\ pc = "validate"
  /\ LET validation == validateVideoFile(downloadedFiles[i + 1]) IN
       /\ validationResults' = Append(validationResults, validation)
       /\ IF ValidationGate(validation)
            THEN /\ Throw("Video corrompido ou invalido")
                 /\ UNCHANGED i
            ELSE /\ IF i + 1 < Len(downloadedFiles)
                      THEN pc' = "validate" /\ i' = i + 1
                      ELSE pc' = "extractAudio" /\ i' = 0
                 /\ UNCHANGED error
  /\ UNCHANGED << nUrls, format, targetDimensions, tempDirExists,
                  downloadedFiles, extractedAudios, finalAudio, normalizedFiles, concatList, fallback,
                  attemptIndex, started, compressVars, uploadVars, killed, response >>
  /\ UNCHANGED << uploadStatus, body >>
  /\ UNCHANGED << hostVars, fnVars >>

\* extractedAudios.push(audioFile): audio-<i>.aac, named by its input
PushAudio_Front(list, idx) == << idx >> \o list

PushAudio(list, idx) == Append(list, idx)

\* end of one iteration of the extraction loop with the list it leaves;
\* after the last input audio-concat.txt is written from extractedAudios
NextAudio(list) ==
  /\ extractedAudios' = list
  /\ IF i + 1 < Len(downloadedFiles)
       THEN pc' = "extractAudio" /\ i' = i + 1
       ELSE pc' = "concatAudio" /\ i' = 0
  /\ UNCHANGED error

\* catch (extractError): the error is rethrown to the outer catch
ExtractFailed_SkipAudio == NextAudio(extractedAudios)

ExtractFailed ==
  /\ Throw("Falha ao extrair audio do video")
  /\ UNCHANGED << extractedAudios, i >>

\* one iteration of the audio extraction loop (stage 1.5); the output of
\* an ffmpeg that exited with zero is not looked at
ExtractAudio ==
  /\ pc = "extractAudio"
  /\ started' = started \cup {"extractAudio"}
  /\ \E outcome \in ExecOutcomes :
       IF outcome = "fail"
         THEN ExtractFailed
         ELSE NextAudio(PushAudio(extractedAudios, i))
  /\ UNCHANGED << nUrls, format, targetDimensions, tempDirExists,
                  downloadedFiles, validationResults, finalAudio,
                  normalizedFiles, concatList, fallback, attemptIndex, compressVars, uploadVars, killed,
                  response >>
  /\ UNCHANGED << uploadStatus, body >>
  /\ UNCHANGED << hostVars, fnVars >>

\* concatenation of the extracted audio tracks
ConcatAudio ==
  /\ pc = "concatAudio"
  /\ started' = started \cup {"concatAudio"}
  /\ \E outcome \in ExecOutcomes :
       IF outcome = "fail"
         THEN /\ Throw("Falha ao concatenar audios")
              /\ UNCHANGED << finalAudio, i >>
         ELSE /\ finalAudio' = TRUE
              /\ pc' = "normalize"
              /\ i' = 0
              /\ UNCHANGED error
  /\ UNCHANGED << nUrls, format, targetDimensions, tempDirExists,
                  downloadedFiles, validationResults, extractedAudios,
                  normalizedFiles, concatList, fallback, attemptIndex, compressVars, uploadVars, killed,
                  response >>
  /\ UNCHANGED << uploadStatus, body >>
  /\ UNCHANGED << hostVars, fnVars >>

\* end of one iteration of the stage-2 loop with the list it leaves; after
\* the last input concat.txt is written from normalizedFiles
NextVideo(list) ==
  /\ normalizedFiles' = list
  /\ fallback' = FALSE
  /\ attemptIndex' = 0
  /\ IF i + 1 < Len(downloadedFiles)
       THEN pc' = "normalize" /\ i' = i + 1 /\ UNCHANGED concatList
       ELSE pc' = "concat" /\ i' = 0 /\ concatList' = list
  /\ UNCHANGED error

\* catch (fastPathError): fall back to the cascade for the same input
FastCopyFallback_Fatal ==
  /\ Throw("Fast-path falhou")
  /\ UNCHANGED << fallback, attemptIndex, i, normalizedFiles, concatList >>

FastCopyFallback ==
  /\ fallback' = TRUE
  /\ attemptIndex' = 0
  /\ UNCHANGED << pc, i, normalizedFiles, concatList, error >>

\* stage 2, fast-path branch: the classifier approved input i
FastCopy ==
  /\ pc = "normalize"
  /\ ~fallback
  /\ ~shouldNormalizeVideo(validationResults[i + 1], targetDimensions)
  /\ started' = started \cup {"fastCopy"}
  /\ \E outcome \in ExecOutcomes :
       IF fastCopyVideo(outcome) = "success"
         THEN NextVideo(Append(normalizedFiles,
                               CopiedOutput(i, validationResults[i + 1])))
         ELSE FastCopyFallback
  /\ UNCHANGED << nUrls, format, targetDimensions, tempDirExists,
                  downloadedFiles, validationResults, extractedAudios,
                  finalAudio, compressVars, uploadVars, killed, response >>
  /\ UNCHANGED << uploadStatus, body >>
  /\ UNCHANGED << hostVars, fnVars >>

\* normalizeVideoWithRetries after its last tier failed: the throw reaches
\* the outer catch, the loop over the inputs is abandoned
CascadeExhausted_SkipVideo == NextVideo(normalizedFiles)

CascadeExhausted ==
  /\ Throw("Todas as 3 tentativas de normalizacao falharam")
  /\ UNCHANGED << i, normalizedFiles, concatList, fallback, attemptIndex >>

\* if (attemptIndex < attempts.length - 1) continue
HasNextTier_GiveUpEarly(idx) == idx < Len(attempts) - 2

HasNextTier(idx) == idx < Len(attempts) - 1

\* stage 2, one tier of normalizeVideoWithRetries for input i, reached
\* directly or from the fallback of a failed fast copy
NormalizeTier ==
  /\ pc = "normalize"
  /\ fallback \/ shouldNormalizeVideo(validationResults[i + 1], targetDimensions)
  /\ started' = started \cup {"normalize"}
  /\ \E outcome \in TierOutcomes(targetDimensions) :
       IF TierSucceeds(outcome)
         THEN NextVideo(PushNormalized(normalizedFiles,
                          NormalizedOutput(i, targetDimensions, fallback),
                          fallback))
         ELSE IF HasNextTier(attemptIndex)
           THEN /\ attemptIndex' = attemptIndex + 1
                /\ UNCHANGED << pc, i, normalizedFiles, concatList, fallback,
                                error >>
           ELSE CascadeExhausted
  /\ UNCHANGED << nUrls, format, targetDimensions, tempDirExists,
                  downloadedFiles, validationResults, extractedAudios,
                  finalAudio, compressVars, uploadVars, killed, response >>
  /\ UNCHANGED << uploadStatus, body >>
  /\ UNCHANGED << hostVars, fnVars >>

\* the variables no later-stage action changes
inputVars == << nUrls, format, targetDimensions, downloadedFiles,
                validationResults, extractedAudios, finalAudio,
                normalizedFiles, concatList, fallback, attemptIndex >>

\* the concatenated video is accepted when it has at least 1000 bytes
ConcatAccepted_AnySize(size) == TRUE

ConcatAccepted(size) == size >= MIN_OUTPUT_BYTES

\* stage 3: concatenation of the canonical outputs listed in concat.txt
ConcatVideo ==
  /\ pc = "concat"
  /\ started' = started \cup {"concatVideo"}
  /\ \/ /\ Throw("Concatenation failed")
        /\ UNCHANGED << files, content, currentSize >>
     \/ \E size \in OutputSizes :
          IF ConcatAccepted(size)
            THEN /\ files' = (videoOnlyPath :> size)
                 /\ content' = (videoOnlyPath :> 0)
                 /\ currentSize' = size
                 /\ pc' = IF size > MAX_SIZE_BYTES THEN "compress" ELSE "mux"
                 /\ UNCHANGED error
            ELSE /\ Throw("Concatenation failed")
                 /\ UNCHANGED << files, content, currentSize >>
  /\ UNCHANGED << inputVars, tempDirExists, i, currentCrf, compressionAttempt,
                  workingPath, encodeInput, lastOk, attemptCrfs, warned,
                  uploadVars, killed, response >>
  /\ UNCHANGED << uploadStatus, body >>
  /\ UNCHANGED << hostVars, fnVars >>

\* files on disk after attempt `attempt` left `newSize` bytes: the previous
\* working file is unlinked unless it is the original video-only file
FilesAfterAttempt(attempt, newSize) ==
  LET kept == DOMAIN files \ (IF workingPath # videoOnlyPath
                                THEN {workingPath} ELSE {})
  IN [n \in kept \cup {attempt} |-> IF n = attempt THEN newSize ELSE files[n]]

\* the same files by the encode that wrote them
ContentAfterAttempt(attempt) ==
  LET kept == DOMAIN content \ (IF workingPath # videoOnlyPath
                                  THEN {workingPath} ELSE {})
  IN [n \in kept \cup {attempt} |-> IF n = attempt THEN attempt ELSE content[n]]

\* ffmpeg -i "${workingPath}": the file an attempt re-encodes
CompressInput_Original == videoOnlyPath

CompressInput == workingPath

\* catch (compressError) { ...; continue; }: the attempt's failure is logged
\* and the loop goes on with what it had
AttemptFailed_Fatal ==
  /\ Throw("Compression attempt failed")
  /\ UNCHANGED << files, currentSize, workingPath >>

AttemptFailed ==
  UNCHANGED << files, currentSize, workingPath, pc, error >>

\* one iteration of the compression loop
CompressAttempt ==
  /\ pc = "compress"
  /\ LoopGuard(currentSize, compressionAttempt, currentCrf)
  /\ LET attempt == compressionAttempt + 1
         crf == ChooseCrf(attempt, currentSize, currentCrf)
     IN /\ compressionAttempt' = attempt
        /\ currentCrf' = crf
        /\ attemptCrfs' = Append(attemptCrfs, crf)
        /\ started' = started \cup {"compress"}
        /\ encodeInput' = content[CompressInput]
        /\ \/ /\ AttemptFailed
              /\ UNCHANGED << content, lastOk >>
           \/ \E newSize \in OutputSizes :
                /\ files' = FilesAfterAttempt(attempt, newSize)
                /\ content' = ContentAfterAttempt(attempt)
                /\ lastOk' = attempt
                /\ workingPath' = attempt
                /\ currentSize' = AdoptedSize(currentSize, newSize)
                /\ UNCHANGED << pc, error >>
  /\ UNCHANGED << inputVars, tempDirExists, i, warned, uploadVars, killed,
                  response >>
  /\ UNCHANGED << uploadStatus, body >>
  /\ UNCHANGED << hostVars, fnVars >>

\* after the loop: warning when still over the ceiling, the last working
\* file replaces the video-only file; control continues with the mux
AfterCompression_Fatal ==
  IF currentSize > MAX_SIZE_BYTES
    THEN Throw("Video still exceeds the size ceiling")
    ELSE pc' = "mux" /\ UNCHANGED error

AfterCompression == pc' = "mux" /\ UNCHANGED error

CompressFinish ==
  /\ pc = "compress"
  /\ ~LoopGuard(currentSize, compressionAttempt, currentCrf)
  /\ warned' = (currentSize > MAX_SIZE_BYTES)
  /\ files' = IF workingPath # videoOnlyPath
                THEN (videoOnlyPath :> files[workingPath])
                ELSE files
  /\ content' = IF workingPath # videoOnlyPath
                  THEN (videoOnlyPath :> content[workingPath])
                  ELSE content
  /\ AfterCompression
  /\ UNCHANGED << inputVars, tempDirExists, i, started, currentSize,
                  currentCrf, compressionAttempt, workingPath, encodeInput,
                  lastOk, attemptCrfs, uploadVars, killed, response >>
  /\ UNCHANGED << uploadStatus, body >>
  /\ UNCHANGED << hostVars, fnVars >>

\* sizes (bytes) the muxed artifact can have: under the 1000-byte threshold,
\* at the ceiling, over the ceiling
MuxSizes == {500, 49 * MB, 160 * MB}

\* stage 4: mux of the video-only file with the concatenated audio
Mux ==
  /\ pc = "mux"
  /\ started' = started \cup {"mux"}
  /\ \/ /\ Throw("Concatenation failed")
        /\ UNCHANGED outputSize
     \/ \E size \in MuxSizes :
          /\ outputSize' = size
          /\ pc' = "delete"
          /\ UNCHANGED error
  /\ UNCHANGED << inputVars, tempDirExists, i, compressVars, deleteStatus,
                  uploaded, killed, response >>
  /\ UNCHANGED << uploadStatus, body >>
  /\ UNCHANGED << hostVars, fnVars >>

\* delete of the destination key; every outcome continues with the upload
DeleteStatuses == {"ok", "404", "other", "exception"}

\* after the delete: a 200 or a 404 is logged, any other status and a
\* thrown fetch are warned about, and the handler goes on to the upload
AfterDelete_Strict(st) ==
  IF st \in {"ok", "404"}
    THEN pc' = "upload" /\ UNCHANGED error
    ELSE Throw("Delete failed")

AfterDelete(st) == pc' = "upload" /\ UNCHANGED error

DeleteExisting ==
  /\ pc = "delete"
  /\ \E st \in DeleteStatuses :
       /\ deleteStatus' = st
       /\ AfterDelete(st)
  /\ UNCHANGED << inputVars, tempDirExists, i, started, compressVars,
                  outputSize, uploaded, killed, response, uploadStatus,
                  body >>
  /\ UNCHANGED << hostVars, fnVars >>

\* upload of the muxed artifact with x-upsert; deleteResponse is local to
\* the delete's try block and is gone by now
UploadStatuses == {"ok", "409", "other", "exception"}

\* what the upload hands to the object store
UploadedArtifact == outputSize

\* message of the error thrown for an upload that was not accepted
UploadError_Generic(st) ==
  IF st = "exception" THEN "fetch failed" ELSE "Upload failed: status - errorText"

UploadError(st) ==
  CASE st = "409" ->
         "Upload failed: 409 - Duplicate file. Retry with unique name."
    [] st = "other" -> "Upload failed: status - errorText"
    [] st = "exception" -> "fetch failed"

Upload ==
  /\ pc = "upload"
  /\ \E st \in UploadStatuses :
       /\ uploadStatus' = st
       /\ IF st = "ok"
            THEN /\ uploaded' = Append(uploaded, UploadedArtifact)
                 /\ pc' = "uploaded"
                 /\ UNCHANGED error
            ELSE /\ Throw(UploadError(st))
                 /\ UNCHANGED uploaded
  /\ deleteStatus' = NoValue
  /\ UNCHANGED body
  /\ UNCHANGED << inputVars, tempDirExists, i, started, compressVars,
                  outputSize, killed, response >>
  /\ UNCHANGED << hostVars, fnVars >>

\* success path: scratch directory removed, then the 200 response
Respond ==
  /\ pc = "uploaded"
  /\ tempDirExists' = FALSE
  /\ response' = 200
  /\ pc' = "done"
  /\ UNCHANGED << inputVars, i, started, compressVars, uploadVars, error,
                  killed >>
  /\ UNCHANGED << uploadStatus, body >>
  /\ UNCHANGED << hostVars, fnVars >>

\* outer catch block: whether the scratch directory still exists after
\* fs.rm(tempDir, { recursive: true, force: true })
DirAfterRm_NotRemoved == tempDirExists

DirAfterRm == FALSE

CatchCleanup ==
  /\ pc = "catch"
  /\ tempDirExists' = DirAfterRm
  /\ pc' = "pkill"
  /\ UNCHANGED << inputVars, i, started, compressVars, uploadVars, error,
                  killed, response >>
  /\ UNCHANGED << uploadStatus, body >>
  /\ UNCHANGED << hostVars, fnVars >>

\* outer catch block: whether the pkill was run before the response
KillAttempted_Skipped == killed

KillAttempted == TRUE

\* outer catch block: pkill -9 ffmpeg, then the 500 response
CatchRespond ==
  /\ pc = "pkill"
  /\ killed' = KillAttempted
  /\ response' = 500
  /\ body' = [error |-> "Concatenation failed", details |-> error]
  /\ UNCHANGED uploadStatus
  /\ pc' = "failed"
  /\ UNCHANGED << inputVars, tempDirExists, i, started, compressVars,
                  uploadVars, error >>
  /\ UNCHANGED << hostVars, fnVars >>

Next ==
  \/ Receive
  \/ Mkdir
  \/ Download
  \/ Validate
  \/ ExtractAudio
  \/ ConcatAudio
  \/ FastCopy
  \/ NormalizeTier
  \/ ConcatVideo
  \/ CompressAttempt
  \/ CompressFinish
  \/ Mux
  \/ DeleteExisting
  \/ Upload
  \/ Respond
  \/ CatchCleanup
  \/ CatchRespond

Spec == Init /\ [][Next]_vars

\* fairness: a step whose awaited call is a filesystem call or carries a
\* timeout is eventually taken once enabled; the delete and the upload are
\* fetches without a timeout and get none, nor does the arrival of a request
FairSpec ==
  /\ Spec
  /\ WF_vars(Mkdir) /\ WF_vars(Download) /\ WF_vars(Validate)
  /\ WF_vars(ExtractAudio) /\ WF_vars(ConcatAudio)
  /\ WF_vars(FastCopy) /\ WF_vars(NormalizeTier) /\ WF_vars(ConcatVideo)
  /\ WF_vars(CompressAttempt) /\ WF_vars(CompressFinish) /\ WF_vars(Mux)
  /\ WF_vars(Respond) /\ WF_vars(CatchCleanup) /\ WF_vars(CatchRespond)

\* --------------------------------------------------------------------- host
\* The server with two requests in flight, the scratch directories of /tmp,
\* the clock and the ffmpeg processes. A request is followed by the call it
\* awaits: a timed fetch ("fetch"), an ffmpeg subprocess ("exec"), the
\* delete fetch ("store") and the upload fetch ("upload"), which have no
\* timeout, the fs.rm of the success path ("cleanup"), then its catch block
\* ("catch"), or it has answered ("done", "failed"). The clock is read at
\* the instants a cleanup period apart.
MaxPeriods == 5
MaxOrphans == 4

PERIOD_MS == 15 * 60 * 1000
MAX_AGE_MS == 3600000
MAX_FFMPEG == 5

\* longest run of timed calls of a job that create no entry in its scratch
\* directory: the fast copy and the three tiers writing the same output
MAX_QUIET_MS == 60000 + 3 * 600000

Endpoints == {"concatenate", "compress"}
ProjectIds == {"p1", "p2"}

\* path.join('/tmp', `project-${projectId}-${Date.now()}`) and
\* path.join('/tmp', `compress-${Date.now()}`)
TempDir(endpoint, projectId, t) ==
  IF endpoint = "concatenate"
    THEN [prefix |-> "project-", id |-> projectId, stamp |-> t]
    ELSE [prefix |-> "compress-", id |-> NoValue, stamp |-> t]

InFlight(job) ==
  job.phase \in {"fetch", "exec", "store", "upload", "cleanup", "catch"}

\* the job has a live ffmpeg process
Running(job) == job.phase = "exec" /\ job.killedBy = "none"

Exists(dirs, name) == \E d \in dirs : d.name = name

\* fs.mkdir(tempDir, { recursive: true }): no error and no change if present
MkdirP(dirs, name, t) ==
  IF Exists(dirs, name) THEN dirs
  ELSE dirs \cup {[name |-> name, mtimeMs |-> t]}

\* a file is created in the directory: its mtime becomes the current time
CreateEntry(dirs, name, t) ==
  {IF d.name = name THEN [d EXCEPT !.mtimeMs = t] ELSE d : d \in dirs}

\* fs.rm(tempDir, { recursive: true, force: true })
RmRf(dirs, name) == {d \in dirs : d.name # name}

\* a signal 9 to the ffmpeg process of a job, if it has one
Kill(job, by) == IF Running(job) THEN [job EXCEPT !.killedBy = by] ELSE job

\* a request is accepted: tempDir is named, created, the download begins
JobArrive(j) ==
  /\ jobs[j].phase = "idle"
  /\ \E endpoint \in Endpoints, projectId \in ProjectIds :
       LET tempDir == TempDir(endpoint, projectId, now) IN
         /\ jobs' = [jobs EXCEPT ![j] =
                       [endpoint |-> endpoint,
                        projectId |-> IF endpoint = "concatenate"
                                        THEN projectId ELSE NoValue,
                        tempDir |-> tempDir,
                        phase |-> "fetch",
                        killedBy |-> "none"]]
         /\ tmp' = MkdirP(tmp, tempDir, now)
  /\ UNCHANGED << now, orphans, objects, handlerVars, fnVars >>

\* the download fetch ends: the file is written and the next download or
\* the first ffmpeg begins, or the error reaches the catch block
JobFetchEnd(j) ==
  /\ jobs[j].phase = "fetch"
  /\ \/ /\ \E next \in IF jobs[j].endpoint = "concatenate"
                          THEN {"fetch", "exec"} ELSE {"exec"} :
             jobs' = [jobs EXCEPT ![j].phase = next]
        /\ tmp' = CreateEntry(tmp, jobs[j].tempDir, now)
     \/ /\ jobs' = [jobs EXCEPT ![j].phase = "catch"]
        /\ UNCHANGED tmp
  /\ UNCHANGED << now, orphans, objects, handlerVars, fnVars >>

\* how an awaited ffmpeg ends: a killed process rejects the exec
ExecResults(job) ==
  IF job.killedBy # "none" THEN {"killed"} ELSE {"ok", "fail", "timeout"}

\* what the handler awaits next: /concatenate goes on with a new output or
\* to the delete of the upload handoff after a success, retries on the same
\* output or gives up after a failure; /compress has one encode and no
\* retry, then the upload, or the fs.rm when it answers with base64
AfterExec(job, result) ==
  IF job.endpoint = "concatenate"
    THEN IF result = "ok" THEN {"exec", "store"} ELSE {"exec", "catch"}
    ELSE IF result = "ok" THEN {"upload", "cleanup"} ELSE {"catch"}

\* an awaited ffmpeg ends. A timed-out exec signals the shell it spawned;
\* the ffmpeg below it may live on
JobExecEnd(j) ==
  /\ jobs[j].phase = "exec"
  /\ \E result \in ExecResults(jobs[j]) :
     \E next \in AfterExec(jobs[j], result) :
       /\ jobs' = [jobs EXCEPT ![j].phase = next, ![j].killedBy = "none"]
       /\ tmp' = IF next = "exec" /\ result = "ok"
                   THEN CreateEntry(tmp, jobs[j].tempDir, now)
                   ELSE tmp
       /\ \/ UNCHANGED orphans
          \/ /\ result = "timeout"
             /\ jobs[j].endpoint = "concatenate"
             /\ orphans < MaxOrphans
             /\ orphans' = orphans + 1
  /\ UNCHANGED << now, objects, handlerVars, fnVars >>

\* req.body.storagePath || `${projectId}/${outputFilename}` of /concatenate,
\* outputPath of /compress
StoragePath(job) ==
  IF job.endpoint = "concatenate" THEN job.projectId ELSE "outputPath"

\* the bucket after a DELETE of a path that was answered with success
Deleted(bucket, path) == [bucket EXCEPT ![path] = NoValue]

\* the bucket after a POST of a path that was answered with success
Stored(bucket, path, j) == [bucket EXCEPT ![path] = j]

\* whether the bucket accepts the POST: x-upsert true replaces an object,
\* x-upsert false does not
Upsert(job) == job.endpoint = "concatenate"

Accepts(bucket, job) == Upsert(job) \/ bucket[StoragePath(job)] = NoValue

\* the DELETE of /concatenate ends: answered with success, or with an error
\* status or not at all, and the handler goes on to the upload
JobStoreEnd(j) ==
  /\ jobs[j].phase = "store"
  /\ jobs' = [jobs EXCEPT ![j].phase = "upload"]
  /\ \/ objects' = Deleted(objects, StoragePath(jobs[j]))
     \/ UNCHANGED objects
  /\ UNCHANGED << tmp, now, orphans, handlerVars, fnVars >>

\* the upload POST ends: accepted, and the handler goes on to remove
\* tempDir, or failed, and the error reaches the catch block
JobUploadEnd(j) ==
  /\ jobs[j].phase = "upload"
  /\ \/ /\ Accepts(objects, jobs[j])
        /\ objects' = Stored(objects, StoragePath(jobs[j]), j)
        /\ jobs' = [jobs EXCEPT ![j].phase = "cleanup"]
     \/ /\ jobs' = [jobs EXCEPT ![j].phase = "catch"]
        /\ UNCHANGED objects
  /\ UNCHANGED << tmp, now, orphans, handlerVars, fnVars >>

\* the success path: once fs.rm has removed tempDir the request is answered
\* with success
AfterCleanup_Fails == "failed"

AfterCleanup == "done"

JobCleanupEnd(j) ==
  /\ jobs[j].phase = "cleanup"
  /\ tmp' = RmRf(tmp, jobs[j].tempDir)
  /\ jobs' = [jobs EXCEPT ![j].phase = AfterCleanup]
  /\ UNCHANGED << now, orphans, objects, handlerVars, fnVars >>

\* the catch block: tempDir is removed; /concatenate then runs
\* pkill -9 ffmpeg, which signals every process named ffmpeg on the host
JobCatch(j) ==
  /\ jobs[j].phase = "catch"
  /\ tmp' = RmRf(tmp, jobs[j].tempDir)
  /\ IF jobs[j].endpoint = "concatenate"
       THEN /\ jobs' = [k \in JobIds |->
                         IF k = j THEN [jobs[j] EXCEPT !.phase = "failed"]
                         ELSE Kill(jobs[k], "pkill")]
            /\ orphans' = 0
       ELSE /\ jobs' = [jobs EXCEPT ![j].phase = "failed"]
            /\ UNCHANGED orphans
  /\ UNCHANGED << now, objects, handlerVars, fnVars >>

\* pgrep ffmpeg | wc -l
ProcessCount == orphans + Cardinality({j \in JobIds : Running(jobs[j])})

\* the setInterval callback: project- directories with an mtime more than
\* an hour old are removed; with more than 5 ffmpeg processes,
\* pkill -9 -f "ffmpeg.*project-" signals every ffmpeg whose command line
\* names a project- path
PeriodicCleanup ==
  /\ tmp' = {d \in tmp : ~(d.name.prefix = "project-"
                             /\ now - d.mtimeMs > MAX_AGE_MS)}
  /\ IF ProcessCount > MAX_FFMPEG
       THEN /\ jobs' = [j \in JobIds |->
                         IF jobs[j].endpoint = "concatenate"
                           THEN Kill(jobs[j], "sweeper") ELSE jobs[j]]
            /\ orphans' = 0
       ELSE UNCHANGED << jobs, orphans >>
  /\ UNCHANGED << now, objects, handlerVars, fnVars >>

\* a cleanup period passes; a job awaiting calls that carry a timeout has
\* created an entry in its directory within MAX_QUIET_MS, and a catch block
\* awaits nothing before its fs.rm, nor does the success path; leftover
\* ffmpeg processes may have finished on their own
Tick ==
  /\ now + PERIOD_MS <= MaxPeriods * PERIOD_MS
  /\ \A j \in JobIds : jobs[j].phase \notin {"catch", "cleanup"}
  /\ \A j \in JobIds : \A d \in tmp :
       (jobs[j].phase \in {"fetch", "exec"} /\ d.name = jobs[j].tempDir)
         => now + PERIOD_MS - d.mtimeMs <= MAX_QUIET_MS
  /\ now' = now + PERIOD_MS
  /\ \E left \in 0..orphans : orphans' = left
  /\ UNCHANGED << jobs, tmp, objects, handlerVars, fnVars >>

HostNext ==
  \/ \E j \in JobIds : JobArrive(j)
  \/ \E j \in JobIds : JobFetchEnd(j)
  \/ \E j \in JobIds : JobExecEnd(j)
  \/ \E j \in JobIds : JobStoreEnd(j)
  \/ \E j \in JobIds : JobUploadEnd(j)
  \/ \E j \in JobIds : JobCleanupEnd(j)
  \/ \E j \in JobIds : JobCatch(j)
  \/ PeriodicCleanup
  \/ Tick

HostSpec == Init /\ [][HostNext]_vars

\* ----------------------------------------------------------- pure functions
\* validateVideoFile, shouldNormalizeVideo and the first-attempt CRF choice
\* applied to inputs drawn from the sets below.
\* What ffprobe can print for streams[0] of a file of 1000+ bytes: every
\* field present or absent (NoValue; 0 for width and height), the codec the
\* canonical one or another, the dimensions those of a profile or not, the
\* frame-rate expression inside and outside the enumerated set, the packet
\* count zero, positive or absent
ProbedStreams ==
  { MkFile(5 * MB, "ok", codec, w, h, fps, pk) :
      codec \in {"h264", "hevc", NoValue},
      w \in {0, 1080},
      h \in {0, 1080, 1920},
      fps \in {NoValue, "30/1", "30", "60/1", "25/1"},
      pk \in {NoValue, "0", "300"} }

\* files the probe is not run on or says nothing about
Unprobed ==
  { MkFile(500, "ok", "h264", 1080, 1920, "30/1", "300"),
    MkFile(999, "ok", "h264", 1080, 1920, "30/1", "300"),
    MkFile(1000, "error", NoValue, 0, 0, NoValue, NoValue),
    MkFile(1000, "nostreams", NoValue, 0, 0, NoValue, NoValue),
    MkFile(NoFile, "error", NoValue, 0, 0, NoValue, NoValue) }

ProbedFiles == ProbedStreams \cup Unprobed

Targets == {formatDimensions[f] : f \in DOMAIN formatDimensions}

\* sizes of the concatenated video at and around the bucket boundaries
\* (1.5, 2 and 3 times the ceiling)
VideoOnlySizes ==
  { MAX_SIZE_BYTES + 1, (3 * MAX_SIZE_BYTES) \div 2,
    (3 * MAX_SIZE_BYTES) \div 2 + 1, 2 * MAX_SIZE_BYTES,
    2 * MAX_SIZE_BYTES + 1, 3 * MAX_SIZE_BYTES, 3 * MAX_SIZE_BYTES + 1 }

\* the routes of the server and whether authenticateApiKey is registered
\* before the handler
Routes == {"health", "concatenate", "compress"}

Protected(r) == r \in {"concatenate", "compress"}

\* the key the server is started with and the header a request carries
ConfiguredKeys == {NoValue, "key"}
HeaderValues == {NoValue, "key", "other"}

\* authenticateApiKey: "next" for next(), "401" for res.status(401).json
authenticateApiKey_PresentOnly(configured, header) ==
  IF configured = NoValue THEN "next"
  ELSE IF header # NoValue /\ header # configured THEN "401"
  ELSE "next"

authenticateApiKey(configured, header) ==
  IF configured = NoValue THEN "next"
  ELSE IF header = NoValue \/ header # configured THEN "401"
  ELSE "next"

FnInit ==
  /\ probed \in ProbedFiles
  /\ validationData = NoValidation
  /\ target \in Targets
  /\ needsNormalization = NoValue
  /\ videoOnlyBytes \in VideoOnlySizes
  /\ firstCrf = INITIAL_CRF
  /\ FFMPEG_API_KEY \in ConfiguredKeys
  /\ route \in Routes
  /\ apiKey \in HeaderValues
  /\ authResult = NoValue
  /\ handled = FALSE

\* const validation = await validateVideoFile(...)
ApplyValidate ==
  /\ validationData = NoValidation
  /\ validationData' = validateVideoFile(probed)
  /\ UNCHANGED << probed, target, needsNormalization, videoOnlyBytes,
                  firstCrf, authVars, handlerVars, hostVars >>

\* const needsNormalization = shouldNormalizeVideo(validation, targetDimensions)
\* for a result that passed the validation stage
ApplyClassify ==
  /\ validationData.isValid
  /\ needsNormalization = NoValue
  /\ needsNormalization' =
       IF shouldNormalizeVideo(validationData, target)
         THEN "normalize" ELSE "copy"
  /\ UNCHANGED << probed, validationData, target, videoOnlyBytes, firstCrf,
                  authVars, handlerVars, hostVars >>

\* first iteration of the compression loop on a video over the ceiling
ApplyChooseCrf ==
  /\ firstCrf = INITIAL_CRF
  /\ LoopGuard(videoOnlyBytes, 0, INITIAL_CRF)
  /\ firstCrf' = ChooseCrf(1, videoOnlyBytes, INITIAL_CRF)
  /\ UNCHANGED << probed, validationData, target, needsNormalization,
                  videoOnlyBytes, authVars, handlerVars, hostVars >>

\* a request reaches its route: the middleware, if one is registered, then
\* the handler unless the middleware answered
ApplyAuth ==
  /\ authResult = NoValue
  /\ authResult' = IF Protected(route)
                     THEN authenticateApiKey(FFMPEG_API_KEY, apiKey)
                     ELSE "next"
  /\ handled' = (authResult' = "next")
  /\ UNCHANGED << probed, validationData, target, needsNormalization,
                  videoOnlyBytes, firstCrf, FFMPEG_API_KEY, route, apiKey,
                  handlerVars, hostVars >>

FnNext ==
  \/ ApplyValidate
  \/ ApplyClassify
  \/ ApplyChooseCrf
  \/ ApplyAuth

FnStart == HandlerInit /\ HostInit /\ FnInit

FnSpec == FnStart /\ [][FnNext]_vars

\* ------------------------------------------------------------------- claims
TranscodingSteps ==
  {"extractAudio", "concatAudio", "fastCopy", "normalize", "concatVideo",
   "compress", "mux"}

Failing == pc \in {"catch", "pkill", "failed"}

SomeInputInvalid ==
  \E k \in DOMAIN validationResults : ~validationResults[k].isValid

AllInputsValidated ==
  /\ Len(validationResults) = nUrls
  /\ \A k \in DOMAIN validationResults : validationResults[k].isValid

\* C1: no transcoding step is started unless every downloaded input has been
\* validated as valid; when an input is invalid the job is failing and no
\* transcoding step has been started.
C1_ValidationGate ==
  /\ started \subseteq TranscodingSteps
  /\ started # {} => AllInputsValidated
  /\ SomeInputInvalid => (started = {} /\ Failing)

C1_Witness ==
  /\ pc = "failed"
  /\ Len(validationResults) = 2
  /\ validationResults[1].isValid
  /\ ~validationResults[2].isValid
  /\ started = {}

C3_Original ==
  \A k \in DOMAIN uploaded : uploaded[k] <= MAX_SIZE_BYTES

\* C3 amended: the artifact handed to the object store was muxed from a
\* video-only file that is at most 49 MB unless the compression loop used
\* all of its MAX_ATTEMPTS attempts and logged the still-over-the-ceiling
\* warning; the muxed artifact itself is not held to the ceiling.
C3_VideoUnderCeilingOrExhausted ==
  uploaded # << >> =>
    /\ Len(uploaded) = 1
    /\ uploaded[1] = outputSize
    /\ \/ files[videoOnlyPath] <= MAX_SIZE_BYTES
       \/ compressionAttempt = MAX_ATTEMPTS /\ warned

C3_Witness ==
  /\ pc = "done"
  /\ uploaded # << >>
  /\ uploaded[1] > MAX_SIZE_BYTES
  /\ files[videoOnlyPath] > MAX_SIZE_BYTES
  /\ compressionAttempt = MAX_ATTEMPTS

ConcatStarted == pc = "concat" \/ "concatVideo" \in started

\* C4: when the video concatenation starts, the list of canonical outputs
\* has as many entries as the request has URLs and entry k was produced from
\* input k, whichever path each input took.
C4_ConcatListMatchesInputs ==
  ConcatStarted =>
    /\ Len(concatList) = nUrls
    /\ concatList = normalizedFiles
    /\ \A k \in DOMAIN concatList : concatList[k].src = k - 1

C4_Witness ==
  /\ pc = "concat"
  /\ \E k \in DOMAIN concatList : concatList[k].via = "fallback"
  /\ \E k \in DOMAIN concatList : concatList[k].via = "normalized"

\* C5: when a job with at least two valid inputs reaches concatenation, every
\* canonical output has the target profile's width and height.
C5_OutputsHaveTargetDimensions ==
  (ConcatStarted /\ nUrls >= 2) =>
    \A k \in DOMAIN concatList :
      /\ concatList[k].width = targetDimensions.width
      /\ concatList[k].height = targetDimensions.height

C5_Witness ==
  /\ pc = "concat"
  /\ \E k \in DOMAIN concatList : concatList[k].via = "fast"
  /\ \E k \in DOMAIN concatList :
       /\ concatList[k].via = "normalized"
       /\ validationResults[k].width # targetDimensions.width

LoopLeft == pc = "mux" \/ "mux" \in started

C6_Inv ==
  /\ compressionAttempt <= MAX_ATTEMPTS
  /\ Len(attemptCrfs) = compressionAttempt
  /\ LoopLeft => \/ currentSize <= MAX_SIZE_BYTES
                 \/ compressionAttempt = MAX_ATTEMPTS
                 \/ currentCrf > MAX_CRF

\* C6: the compression loop runs at most MAX_ATTEMPTS encodes, failed ones
\* included, is always left, and is left with the size at or under the
\* ceiling, or after MAX_ATTEMPTS attempts, or with the CRF ceiling exceeded.
C6_CompressionTerminates ==
  /\ []C6_Inv
  /\ (pc = "compress") ~> (pc # "compress")

C6_Witness ==
  /\ pc = "mux"
  /\ compressionAttempt = MAX_ATTEMPTS
  /\ workingPath = videoOnlyPath
  /\ currentSize > MAX_SIZE_BYTES

\* C7: no encode of the compression loop uses a CRF above MAX_CRF.
C7_CrfNeverAboveCeiling ==
  /\ currentCrf <= MAX_CRF
  /\ \A k \in DOMAIN attemptCrfs : attemptCrfs[k] <= MAX_CRF

C7_Witness ==
  /\ Len(attemptCrfs) = MAX_ATTEMPTS
  /\ attemptCrfs[1] = 32
  /\ attemptCrfs[3] = MAX_CRF
  /\ attemptCrfs[4] = MAX_CRF

\* C8 as stated: a successful compression attempt never leaves the tracked
\* size larger than it was before the attempt.
C8_Original ==
  [][(pc = "compress" /\ workingPath' # workingPath)
       => currentSize' <= currentSize]_vars

\* C9: a compression loop that is left with the video still over the ceiling
\* continues with the mux, logging the warning and raising no error; a job
\* that went through it can fail only in the mux or the upload.
C9_Inv ==
  (warned /\ Failing) => ("mux" \in started /\ error # NoValue)

C9_OversizeIsNotFatal ==
  /\ []C9_Inv
  /\ [][(pc = "compress" /\ pc' # "compress" /\ currentSize > MAX_SIZE_BYTES)
          => (pc' = "mux" /\ warned' /\ error' = error
              /\ files'[videoOnlyPath] = currentSize)]_vars

C9_Witness ==
  /\ pc = "done"
  /\ response = 200
  /\ warned
  /\ files[videoOnlyPath] > MAX_SIZE_BYTES
  /\ uploaded # << >>

\* C10: a failed fast copy does not fail the job: the cascade is started for
\* the same input, its output takes that input's slot, and a job inside the
\* fallback fails only when the third tier failed.
C10_Inv ==
  /\ error # "Fast-path falhou"
  /\ (fallback /\ Failing) =>
       /\ error = "Todas as 3 tentativas de normalizacao falharam"
       /\ attemptIndex = Len(attempts) - 1

FastCopyFailedStep ==
  /\ pc = "normalize"
  /\ ~fallback
  /\ ~shouldNormalizeVideo(validationResults[i + 1], targetDimensions)
  /\ normalizedFiles' = normalizedFiles

FallbackOutputStep ==
  /\ pc = "normalize"
  /\ fallback
  /\ normalizedFiles' # normalizedFiles

C10_FastCopyFailureFallsBack ==
  /\ []C10_Inv
  /\ [][FastCopyFailedStep =>
          (pc' = "normalize" /\ fallback' /\ i' = i /\ attemptIndex' = 0
           /\ error' = error)]_vars
  /\ [][FallbackOutputStep =>
          /\ Len(normalizedFiles') = i + 1
          /\ normalizedFiles'[i + 1].src = i
          /\ normalizedFiles'[i + 1].via = "fallback"]_vars

C10_Witness ==
  /\ pc = "done"
  /\ concatList[1].via = "fallback"
  /\ concatList[2].via = "fast"

\* C11: when the third normalization tier of an input fails the job fails:
\* the step goes to the catch block with the cascade's error, the input is
\* not skipped and no later input is processed (the list of normalized
\* files stays as long as the inputs before this one), and neither the
\* concatenation, the mux nor the upload is ever performed.
LastTierFailedStep ==
  /\ pc = "normalize"
  /\ attemptIndex = Len(attempts) - 1
  /\ normalizedFiles' = normalizedFiles

C11_Inv ==
  error = "Todas as 3 tentativas de normalizacao falharam" =>
    /\ Failing
    /\ attemptIndex = Len(attempts) - 1
    /\ Len(normalizedFiles) = i
    /\ \A k \in 1..Len(normalizedFiles) : normalizedFiles[k].src < i
    /\ concatList = << >>
    /\ started \cap {"concatVideo", "compress", "mux"} = {}
    /\ outputSize = 0
    /\ uploaded = << >>

C11_AllTiersFailedIsFatal ==
  /\ []C11_Inv
  /\ [][LastTierFailedStep =>
          /\ pc' = "catch"
          /\ error' = "Todas as 3 tentativas de normalizacao falharam"
          /\ i' = i]_vars

C11_Witness ==
  /\ error = "Todas as 3 tentativas de normalizacao falharam"
  /\ response = 500
  /\ i = 0
  /\ nUrls = 2

\* C12: whenever the job has answered with the error status, whatever the
\* stage that threw, the scratch directory has been removed, the pkill of
\* the transcoding processes has been run, and the body carries the
\* category "Concatenation failed" and the message of the error caught;
\* every step into the catch block carries such a message.
C12_Inv ==
  /\ response = 500 =>
       /\ pc = "failed"
       /\ ~tempDirExists
       /\ killed
       /\ error # NoValue
       /\ body = [error |-> "Concatenation failed", details |-> error]
  /\ pc = "failed" => response = 500
  /\ pc = "pkill" => ~tempDirExists

C17_Original ==
  (pc \in {"delete", "upload", "uploaded", "done"}
     /\ outputSize > MAX_SIZE_BYTES)
    => "finalPass" \in started

\* C18: the delete of the destination key is reached only from the mux, so
\* once per job; whatever its outcome the step after it is the upload, with
\* no error recorded and nothing uploaded by the delete itself; the upload
\* then ends with one of its own outcomes.
C18_Inv ==
  /\ pc = "upload" => (deleteStatus \in DeleteStatuses /\ error = NoValue)
  /\ pc = "delete" => (deleteStatus = NoValue /\ uploadStatus = NoValue)

C18_DeleteNeverFailsTheJob ==
  /\ []C18_Inv
  /\ [][pc' = "delete" => pc = "mux"]_vars
  /\ [][pc = "delete" =>
          /\ pc' = "upload"
          /\ deleteStatus' \in DeleteStatuses
          /\ error' = error
          /\ uploaded' = uploaded]_vars
  /\ [][pc = "upload" =>
          /\ uploadStatus' \in UploadStatuses
          /\ pc' = IF uploadStatus' = "ok" THEN "uploaded" ELSE "catch"]_vars

C18_Witness ==
  /\ pc = "upload"
  /\ deleteStatus = "exception"

\* C19: an upload answered 409 fails the job with the duplicate-file
\* message, which asks for a retry with a unique name and which no other
\* failure produces; every other upload failure fails the job too, with a
\* different message; the message is what the 500 response carries.
Duplicate409 ==
  "Upload failed: 409 - Duplicate file. Retry with unique name."

C20_ShortRequestRejected ==
  (pc # "pending" /\ (nUrls = MissingUrls \/ nUrls < 2)) =>
    /\ pc = "rejected"
    /\ response = 400
    /\ body.error = "Needs at least 2 video URLs"
    /\ ~tempDirExists
    /\ downloadedFiles = << >>
    /\ started = {}
    /\ ~killed

C20_Witness ==
  /\ pc = "rejected"
  /\ nUrls = 1
  /\ response = 400

\* C13, as stated: the pkill of a failing job reaches only that job's own
\* subprocesses, so no job's ffmpeg is ever killed by the catch block of
\* another job.
C13_Original ==
  \A j \in JobIds : jobs[j].killedBy # "pkill"

\* C14, as stated: two requests in flight at the same time never have the
\* same scratch directory.
C14_Original ==
  \A j \in JobIds : \A k \in JobIds \ {j} :
    (InFlight(jobs[j]) /\ InFlight(jobs[k]))
      => jobs[j].tempDir # jobs[k].tempDir

\* C15, as stated: the scratch directory of a job in flight is never removed
\* by the periodic cleanup. A job that shares its directory with no other
\* job removes it only when it leaves, so while it is in flight the
\* directory is in /tmp.
C15_Original ==
  \A j \in JobIds :
    (InFlight(jobs[j])
       /\ \A k \in JobIds \ {j} : jobs[k].tempDir # jobs[j].tempDir)
      => Exists(tmp, jobs[j].tempDir)

\* C16, as stated: the pkill of the periodic cleanup reaches orphaned
\* processes only, so the ffmpeg a job in flight is awaiting is never
\* killed by it.
C16_Original ==
  \A j \in JobIds : jobs[j].killedBy # "sweeper"

\* C21: the decision of the classifier is "copy" exactly when the codec is
\* h264, the width and the height equal the target's and the frame-rate
\* expression is "30/1", "30" or "60/1"; a result without a frame-rate
\* expression is sent to normalization. The decision is a value of the
\* operator on (validationData, target) and of nothing else.
C21_ClassifierIsExactLookup ==
  needsNormalization # NoValue =>
    /\ (needsNormalization = "copy") <=>
         /\ validationData.codec = "h264"
         /\ validationData.width = target.width
         /\ validationData.height = target.height
         /\ validationData.fps \in {"30/1", "30", "60/1"}
    /\ validationData.fps = NoValue => needsNormalization = "normalize"
    /\ needsNormalization \in {"copy", "normalize"}

C21_Witness ==
  /\ needsNormalization = "copy"
  /\ validationData.fps = "30"
  /\ target = formatDimensions["1:1"]

\* frames per second a frame-rate expression of the probe stands for
FrameRateOf(expr) ==
  CASE expr = "30/1" -> 30
    [] expr = "30" -> 30
    [] expr = "60/1" -> 60
    [] expr = "25/1" -> 25
    [] OTHER -> 0

TARGET_FPS == 30

\* C22, as stated: an input approved for stream copy has the target frame
\* rate of 30 fps.
C22_Original ==
  needsNormalization = "copy" => FrameRateOf(validationData.fps) = TARGET_FPS

\* C22, amended: an input approved for stream copy has the codec, the width
\* and the height of the target and a frame rate of 30 or of 60 fps (the
\* expression "60/1" is approved as well); no other frame rate is approved.
C22_CopyOnlyAt30Or60 ==
  needsNormalization = "copy" =>
    /\ validationData.codec = "h264"
    /\ validationData.width = target.width
    /\ validationData.height = target.height
    /\ FrameRateOf(validationData.fps) \in {TARGET_FPS, 60}

C22_Witness ==
  /\ needsNormalization = "copy"
  /\ validationData.fps = "60/1"

\* C23, as stated: a job that was accepted (it passed the request check)
\* eventually answers, with the 200 of Done or the 500 of Failed.
C23_Original ==
  (pc = "mkdir") ~> (response \in {200, 500})

\* C24: the later stages run one after the other, each entered only from a
\* completed predecessor: the concatenation once every input has its
\* canonical output, in input order; the compression loop only from a
\* concatenation that left 1000 bytes or more; the mux only once the loop
\* has ended (or was not needed) and with the concatenated audio produced;
\* the upload handoff only from a mux that succeeded.
LoopEnded ==
  \/ currentSize <= MAX_SIZE_BYTES
  \/ compressionAttempt >= MAX_ATTEMPTS
  \/ currentCrf > MAX_CRF

C24_Inv ==
  /\ (pc = "concat" \/ "concatVideo" \in started) =>
       /\ Len(normalizedFiles) = nUrls
       /\ concatList = normalizedFiles
       /\ \A k \in 1..nUrls : normalizedFiles[k].src = k - 1
  /\ (pc = "compress" \/ "compress" \in started) =>
       /\ "concatVideo" \in started
       /\ videoOnlyPath \in DOMAIN files
  /\ (pc = "mux" \/ "mux" \in started) =>
       /\ "concatVideo" \in started
       /\ videoOnlyPath \in DOMAIN files
       /\ LoopEnded
       /\ finalAudio
  /\ (pc \in {"delete", "upload", "uploaded", "done"} \/ uploaded # << >>) =>
       /\ "mux" \in started
       /\ outputSize > 0

C24_StagesInSequence ==
  /\ []C24_Inv
  /\ [][pc' = "concat" => pc \in {"concat", "normalize"}]_vars
  /\ [][(pc = "concat" /\ pc' \in {"compress", "mux"}) =>
          files'[videoOnlyPath] >= MIN_OUTPUT_BYTES]_vars
  /\ [][pc' = "compress" => pc \in {"concat", "compress"}]_vars
  /\ [][pc' = "mux" => pc \in {"concat", "compress", "mux"}]_vars
  /\ [][pc' \in {"delete", "upload"} => pc \in {"mux", "delete"}]_vars
  /\ [][(pc = "mux" /\ pc' = "delete") => (error' = NoValue /\ outputSize' > 0)]_vars

C24_Witness ==
  /\ pc = "upload"
  /\ "compress" \in started
  /\ finalAudio
  /\ Len(normalizedFiles) = 2

\* C25: an error that reached the catch block ends the pipeline: from then
\* on the only steps are the removal of the scratch directory and the pkill
\* with the 500 response; no transcoding step is started, nothing is
\* written, muxed or uploaded, the error is kept, and the job never answers
\* 200.
C25_Inv ==
  error # NoValue =>
    /\ Failing
    /\ response \in {0, 500}

C25_FailedIsTerminal ==
  /\ []C25_Inv
  /\ [][Failing =>
          /\ pc' \in {"pkill", "failed"}
          /\ error' = error
          /\ started' = started
          /\ normalizedFiles' = normalizedFiles
          /\ files' = files
          /\ outputSize' = outputSize
          /\ uploaded' = uploaded
          /\ response' \in {0, 500}]_vars

C25_Witness ==
  /\ pc = "failed"
  /\ response = 500
  /\ "concatVideo" \in started
  /\ "mux" \notin started
  /\ uploaded = << >>

\* C26: an attempt of the compression loop whose encode failed leaves the
\* tracked size, the working file and the files on disk as they were and
\* records no error; the handler stays in the loop, and while the video is
\* over the ceiling and fewer than 4 attempts were made the loop's
\* condition holds, so the next attempt follows.
FailedAttemptStep ==
  /\ pc = "compress"
  /\ compressionAttempt' = compressionAttempt + 1
  /\ compressionAttempt' \notin DOMAIN files'

C26_Inv ==
  (pc = "compress" /\ currentSize > MAX_SIZE_BYTES
     /\ compressionAttempt < MAX_ATTEMPTS) =>
    /\ currentCrf <= MAX_CRF
    /\ error = NoValue

C26_FailedAttemptIsSkipped ==
  /\ []C26_Inv
  /\ [][FailedAttemptStep =>
          /\ currentSize' = currentSize
          /\ workingPath' = workingPath
          /\ files' = files
          /\ pc' = "compress"
          /\ error' = error]_vars

C26_Witness ==
  /\ pc = "compress"
  /\ compressionAttempt = 2
  /\ DOMAIN files = {videoOnlyPath, 2}
  /\ workingPath = 2

C28_FirstCrfByBuckets ==
  /\ firstCrf # INITIAL_CRF =>
       /\ videoOnlyBytes > 3 * MAX_SIZE_BYTES => firstCrf = 32
       /\ (videoOnlyBytes > 2 * MAX_SIZE_BYTES
            /\ videoOnlyBytes <= 3 * MAX_SIZE_BYTES) => firstCrf = 30
       /\ (2 * videoOnlyBytes > 3 * MAX_SIZE_BYTES
            /\ videoOnlyBytes <= 2 * MAX_SIZE_BYTES) => firstCrf = 28
       /\ 2 * videoOnlyBytes <= 3 * MAX_SIZE_BYTES => firstCrf = 25
  /\ \A a \in VideoOnlySizes : \A b \in VideoOnlySizes :
       a <= b => ChooseCrf(1, a, INITIAL_CRF) <= ChooseCrf(1, b, INITIAL_CRF)

C28_Witness ==
  /\ videoOnlyBytes = 2 * MAX_SIZE_BYTES + 1
  /\ firstCrf = 30

\* C29: the tiers of normalizeVideoWithRetries are fast/23, medium/25 and
\* slow/28 in that order; a call starts at the first tier, and one encode
\* of the call either succeeds, which stores the output and ends the call
\* (the next encode, if any, is the first tier of the next input), or
\* fails, which moves to the next tier of the same input, or fails at the
\* third tier, which throws; so a call runs at most three encodes and
\* throws only after the third.
TierStep ==
  /\ pc = "normalize"
  /\ fallback \/ shouldNormalizeVideo(validationResults[i + 1], targetDimensions)

TierSucceededStep ==
  /\ Len(normalizedFiles') = Len(normalizedFiles) + 1
  /\ attemptIndex' = 0
  /\ pc' \in {"normalize", "concat"}
  /\ pc' = "normalize" => i' = i + 1
  /\ error' = error

TierFailedStep ==
  /\ attemptIndex < 2
  /\ attemptIndex' = attemptIndex + 1
  /\ normalizedFiles' = normalizedFiles
  /\ pc' = "normalize"
  /\ i' = i
  /\ error' = error

ThirdTierFailedStep ==
  /\ attemptIndex = 2
  /\ attemptIndex' = attemptIndex
  /\ normalizedFiles' = normalizedFiles
  /\ pc' = "catch"

C29_Inv ==
  /\ Len(attempts) = 3
  /\ attempts[1].preset = "fast" /\ attempts[1].crf = 23
  /\ attempts[2].preset = "medium" /\ attempts[2].crf = 25
  /\ attempts[3].preset = "slow" /\ attempts[3].crf = 28
  /\ attemptIndex \in 0..2
  /\ attemptIndex > 0 => pc \in {"normalize", "catch", "pkill", "failed"}
  /\ error = "Todas as 3 tentativas de normalizacao falharam" =>
       attemptIndex = 2

C29_TiersInOrder ==
  /\ []C29_Inv
  /\ [][TierStep =>
          (TierSucceededStep \/ TierFailedStep \/ ThirdTierFailedStep)]_vars
  /\ [][attemptIndex' # attemptIndex =>
          (TierStep /\ (TierSucceededStep \/ TierFailedStep))]_vars

C29_Witness ==
  /\ pc = "normalize"
  /\ attemptIndex = 2
  /\ i = 1
  /\ Len(normalizedFiles) = 1
  /\ normalizedFiles[1].via = "normalized"

\* C30, as stated: the result of validateVideoFile is valid exactly when the
\* file has 1000 bytes or more, the probe printed a video stream, and the
\* stream has a codec name, a nonzero width, a nonzero height and a packet
\* count that is present and not zero.
C30_Original ==
  validationData # NoValidation =>
    (validationData.isValid <=>
       /\ probed.size >= MIN_OUTPUT_BYTES
       /\ probed.probe = "ok"
       /\ probed.codec_name # NoValue
       /\ probed.width # 0
       /\ probed.height # 0
       /\ probed.nb_read_packets \notin {NoValue, "0"})

\* C31: validateVideoFile returns for every file: each step of the validation
\* loop pushes one result, and a result that is not valid carries a reason
\* and no stream data. The job is aborted by the loop, not by the function:
\* the step goes to the catch block exactly when the result pushed is not
\* valid, with the loop's own message.
ValidateStep == pc = "validate" /\ validationResults' # validationResults

C31_Inv ==
  \A k \in DOMAIN validationResults :
    LET r == validationResults[k] IN
      /\ r.isValid <=> r.error = NoValue
      /\ ~r.isValid => r = InvalidResult(r.error)
      /\ ~r.isValid => (k = Len(validationResults) /\ Failing
                         /\ error = "Video corrompido ou invalido")

C31_ValidatorNeverRaises ==
  /\ []C31_Inv
  /\ [][pc = "validate" => ValidateStep]_vars
  /\ [][ValidateStep =>
          /\ Len(validationResults') = Len(validationResults) + 1
          /\ (pc' = "catch") <=> ~validationResults'[i + 1].isValid
          /\ pc' = "catch" => error' = "Video corrompido ou invalido"]_vars

C31_Witness ==
  /\ response = 500
  /\ Len(validationResults) = 2
  /\ validationResults[2].error = "ffprobe failed"
  /\ downloadedFiles[2].size >= MIN_OUTPUT_BYTES

\* C32, as stated: every output the pipeline went on with has at least
\* 1000 bytes: the video-only file, the compressed candidate adopted as the
\* working file, and the muxed artifact.
C32_Original ==
  /\ \A n \in DOMAIN files : files[n] >= MIN_OUTPUT_BYTES
  /\ outputSize # 0 => outputSize >= MIN_OUTPUT_BYTES

AudioListWritten == pc = "concatAudio" \/ "concatAudio" \in started

\* C33: the list given to the audio concatenation has one extracted track
\* per input, in input order; it is complete before any video is copied or
\* normalized and no later step changes it, whichever path a video takes.
C33_Inv ==
  /\ \A k \in DOMAIN extractedAudios : extractedAudios[k] = k - 1
  /\ extractedAudios # << >> => Len(extractedAudios) <= nUrls
  /\ AudioListWritten => Len(extractedAudios) = nUrls
  /\ started \cap {"fastCopy", "normalize"} # {} => AudioListWritten

C33_AudioListInInputOrder ==
  /\ []C33_Inv
  /\ [][pc # "extractAudio" => extractedAudios' = extractedAudios]_vars

C33_Witness ==
  /\ pc = "done"
  /\ extractedAudios = << 0, 1 >>
  /\ concatList[1].via = "normalized"
  /\ concatList[2].via = "fast"

AudioErrors ==
  {"Falha ao extrair audio do video", "Falha ao concatenar audios"}

\* C36: a failed audio extraction and a failed audio concatenation each
\* send the job to the catch block with the audio error; a job that failed
\* so has copied, normalized, concatenated, muxed and uploaded nothing, and
\* no mux is started without the concatenated audio of every input.
C36_Inv ==
  /\ error \in AudioErrors =>
       /\ Failing
       /\ started \subseteq {"extractAudio", "concatAudio"}
       /\ normalizedFiles = << >>
       /\ concatList = << >>
       /\ files = << >>
       /\ outputSize = 0
       /\ uploaded = << >>
  /\ started \cap {"fastCopy", "normalize", "concatVideo", "compress", "mux"}
       # {} => (finalAudio /\ Len(extractedAudios) = nUrls)

C36_AudioFailureIsFatal ==
  /\ []C36_Inv
  /\ [][(pc = "extractAudio" /\ started' # {}
          /\ extractedAudios' = extractedAudios)
          => (pc' = "catch" /\ error' = "Falha ao extrair audio do video")]_vars
  /\ [][(pc = "concatAudio" /\ started' # {} /\ ~finalAudio')
          => (pc' = "catch" /\ error' = "Falha ao concatenar audios")]_vars

C36_Witness ==
  /\ response = 500
  /\ error = "Falha ao extrair audio do video"
  /\ extractedAudios = << 0 >>
  /\ started = {"extractAudio"}

\* C34: while the compression loop runs, the working file is on disk and
\* holds the output of the latest successful attempt (the concatenated video
\* if none succeeded); every attempt's encode reads that content; once the
\* loop is left, the video-only file given to the mux holds it; and no step
\* leaves the disk without a file holding it.
C34_Inv ==
  /\ pc = "compress" =>
       /\ workingPath \in DOMAIN files
       /\ content[workingPath] = lastOk
       /\ files[workingPath] = currentSize
  /\ LoopLeft =>
       /\ content[videoOnlyPath] = lastOk
       /\ files[videoOnlyPath] = currentSize
  /\ encodeInput # NoFile => encodeInput < compressionAttempt

C34_MuxGetsLatestSuccessfulOutput ==
  /\ []C34_Inv
  /\ [][(pc = "compress" /\ compressionAttempt' # compressionAttempt)
          => encodeInput' = lastOk]_vars
  /\ [][(pc \in {"compress", "mux"})
          => \E n \in DOMAIN content' : content'[n] = lastOk']_vars

C34_Witness ==
  /\ pc = "mux"
  /\ compressionAttempt = MAX_ATTEMPTS
  /\ lastOk = 3
  /\ encodeInput = 3
  /\ content[videoOnlyPath] = 3

\* C38, as stated: the target of an accepted request is one of the three
\* profiles, and it is 1080x1920 for every format value other than "9:16",
\* "1:1" and "16:9".
C38_Original ==
  pc \notin {"pending", "rejected"} =>
    /\ targetDimensions \in Targets
    /\ format \notin {"9:16", "1:1", "16:9"}
         => targetDimensions = [width |-> 1080, height |-> 1920]

\* C39: with a key configured, a request to /concatenate or /compress whose
\* x-api-key header is missing or is not the key is answered 401 and its
\* handler, which is what downloads, creates the scratch directory and
\* starts subprocesses, is not called; a request carrying the key reaches
\* the handler; with no key configured every request does.
C39_KeyGuardsBothEndpoints ==
  (authResult # NoValue /\ Protected(route)) =>
    /\ FFMPEG_API_KEY = NoValue => (authResult = "next" /\ handled)
    /\ (FFMPEG_API_KEY # NoValue /\ apiKey # FFMPEG_API_KEY)
         => (authResult = "401" /\ ~handled)
    /\ (FFMPEG_API_KEY # NoValue /\ apiKey = FFMPEG_API_KEY)
         => (authResult = "next" /\ handled)

C39_Witness ==
  /\ route = "compress"
  /\ FFMPEG_API_KEY = "key"
  /\ apiKey = NoValue
  /\ authResult = "401"
  /\ ~handled

Answers(j, phase) == jobs[j].phase # phase /\ jobs'[j].phase = phase

\* C35, as stated: at the step in which a /concatenate request answers with
\* success, the bucket holds at the request's storage path the object that
\* request uploaded.
C35_Original ==
  [][\A j \in JobIds :
       (jobs[j].endpoint = "concatenate" /\ Answers(j, "done"))
         => objects'[StoragePath(jobs[j])] = j]_vars

\* C37: a /compress request whose upload was accepted goes on to remove its
\* scratch directory and then answers with success, and at the step in
\* which a /compress request answers, with success or with the error, its
\* scratch directory is not in /tmp.
C37_Inv ==
  \A j \in JobIds :
    (jobs[j].endpoint = "compress" /\ objects["outputPath"] = j)
      => jobs[j].phase \in {"cleanup", "done"}

====
